---- MODULE Spec2Model ----
(***************************************************************************)
(* Model of neon's object property layer (src/object/mod.rs): the          *)
(* PropertyKey implementations for u32, Handle and &str and the Object     *)
(* trait, in the legacy-runtime and in the napi-runtime build.  The native *)
(* call surface (neon_runtime::object), types::build and Utf8 lowering are *)
(* collaborators outside this file; they are modelled from the             *)
(* specification and every native call is recorded in a call log.          *)
(***************************************************************************)
EXTENDS Integers, Sequences, FiniteSets, TLC

VARIABLES backend, eng, last

vars == <<backend, eng, last>>

\* ---------------------------------------------------------------- bounds
MaxIndex == 0
MaxVal == 2

\* ------------------------------------------------------------ JS values
JsUndefined == [t |-> "undefined", n |-> 0, s |-> <<>>]
JsNumber(n) == [t |-> "number", n |-> n, s |-> <<>>]
JsString(s) == [t |-> "string", n |-> 0, s |-> s]
\* the zeroed raw::Local an out-slot holds before a native call fills it
ZeroedLocal == [t |-> "zeroed", n |-> 0, s |-> <<>>]

DigitStr == <<"0", "1", "2", "3", "4", "5", "6", "7", "8", "9">>
\* canonical property name of an array index (single digit indices)
IndexName(i) == <<DigitStr[i + 1]>>
\* the engine's ToPropertyKey on a key value
ToPropertyKey(v) == IF v.t = "number" THEN IndexName(v.n) ELSE v.s

\* ------------------------------------------------------- handles, context
Handle(raw) == [raw |-> raw]
to_raw(h) == h.raw

Envs == {"env1", "env2"}
NoEnv == "none"
Contexts == {[env |-> e] : e \in Envs}
\* cx.env().to_raw()
env_to_raw(cx) == cx.env

Objs == {"o1", "o2"}
Indices == 0 .. MaxIndex
Texts == {<<"a", "b">>}
Vals == {JsNumber(n) : n \in 1 .. MaxVal}
KeyValues == {JsNumber(i) : i \in Indices} \cup {JsString(s) : s \in Texts}

\* a property key as the caller supplies it: u32, &str or Handle
U32Key(i) == [kind |-> "u32", idx |-> i, text |-> <<>>, handle |-> Handle(JsUndefined)]
StrKey(s) == [kind |-> "str", idx |-> 0, text |-> s, handle |-> Handle(JsUndefined)]
HandleKey(v) == [kind |-> "handle", idx |-> 0, text |-> <<>>, handle |-> Handle(v)]
Keys == {U32Key(i) : i \in Indices} \cup {StrKey(s) : s \in Texts}
          \cup {HandleKey(v) : v \in KeyValues}

\* Utf8::from(s).into_small_unwrap().lower(): pointer to the bytes and length
\* (into_small_unwrap panics on texts longer than i32::MAX bytes; the texts
\* here are short)
Utf8Lower(s) == [ptr |-> s, len |-> Len(s)]
\* the text a native entry point reads from (ptr, len)
ReadUtf8(ptr, len) == SubSeq(ptr, 1, len)

\* -------------------------------------------------- engine object graph
PropNames == {IndexName(i) : i \in Indices} \cup Texts
\* enumeration order of the engine: indices ascending, then text names (all
\* names a native call can address with the keys above or a prefix of them)
NameOrder == [i \in 1 .. (MaxIndex + 1) |-> IndexName(i - 1)] \o <<<<"a", "b">>, <<"b">>, <<"a">>, <<>>>>
ProtoNames(o) == IF o = "o1" THEN {<<"b">>} ELSE {}
ProtoValue == JsNumber(1)

DataProp(v, w, e) == [kind |-> "data", value |-> v, writable |-> w, enumerable |-> e]
AccessorProp == [kind |-> "accessor", value |-> JsUndefined, writable |-> FALSE, enumerable |-> TRUE]

\* o1: an extensible array-like [1] whose prototype has an enumerable "b";
\* o2: a frozen object with the single, non-enumerable property "ab"
InitialGraph ==
    [o \in Objs |->
        IF o = "o1"
        THEN [props |-> (IndexName(0) :> DataProp(JsNumber(1), TRUE, TRUE)), extensible |-> TRUE]
        ELSE [props |-> (<<"a", "b">> :> DataProp(JsNumber(1), FALSE, FALSE)), extensible |-> FALSE]]

Has(g, o, n) == n \in DOMAIN g[o].props

\* how the engine treats a write to (o, n)
TargetClass(g, o, n) ==
    IF Has(g, o, n)
    THEN IF g[o].props[n].kind = "accessor" THEN "accessor"
         ELSE IF g[o].props[n].writable THEN "writable" ELSE "readonly"
    ELSE IF g[o].extensible THEN "absent" ELSE "sealed"

\* [[Get]]: ok = FALSE when the getter throws
EngineGet(g, o, n) ==
    IF Has(g, o, n)
    THEN IF g[o].props[n].kind = "accessor"
         THEN [ok |-> FALSE, value |-> JsUndefined]
         ELSE [ok |-> TRUE, value |-> g[o].props[n].value]
    ELSE IF n \in ProtoNames(o)
         THEN [ok |-> TRUE, value |-> ProtoValue]
         ELSE [ok |-> TRUE, value |-> JsUndefined]

WithProp(g, o, n, p) ==
    [g EXCEPT ![o].props = [m \in (DOMAIN g[o].props) \cup {n} |->
                               IF m = n THEN p ELSE g[o].props[m]]]

\* [[Set]] in non-strict mode: ok = FALSE when the setter throws,
\* wrote = FALSE when the write is silently refused
EngineSet(g, o, n, v) ==
    LET c == TargetClass(g, o, n) IN
    CASE c = "accessor" -> [ok |-> FALSE, wrote |-> FALSE, eng |-> g]
      [] c = "writable" ->
            [ok |-> TRUE, wrote |-> TRUE,
             eng |-> WithProp(g, o, n, [g[o].props[n] EXCEPT !.value = v])]
      [] c = "absent" ->
            [ok |-> TRUE, wrote |-> TRUE, eng |-> WithProp(g, o, n, DataProp(v, TRUE, TRUE))]
      [] OTHER -> [ok |-> TRUE, wrote |-> FALSE, eng |-> g]

OwnEnumerable(g, o) == {n \in DOMAIN g[o].props : g[o].props[n].enumerable}
InOrder(S) == SelectSeq(NameOrder, LAMBDA n : n \in S)
JsArray(names) == [t |-> "array", length |-> Len(names), names |-> names]

\* ReadOnly = 1, DontEnum = 2, DontDelete = 4
EngineAttributes(g, o, n) ==
    IF Has(g, o, n) /\ g[o].props[n].kind = "data"
    THEN (IF g[o].props[n].writable THEN 0 ELSE 1)
         + (IF g[o].props[n].enumerable THEN 0 ELSE 2)
         + (IF g[o].extensible THEN 0 ELSE 4)
    ELSE 0

\* ----------------------------------------------------- native call surface
\* one entry of the call log: the entry point, its arguments, the boolean it
\* returned and the content of the out-parameter when it returned
Call(fn, env, obj, idx, key, ptr, len, val, ret, out) ==
    [fn |-> fn, env |-> env, obj |-> obj, idx |-> idx, key |-> key,
     ptr |-> ptr, len |-> len, val |-> val, ret |-> ret, out |-> out]

NativeGet(fn, out, g, obj, n, idx, key, ptr, len) ==
    LET r == EngineGet(g, obj, n) IN
    [ok |-> r.ok, out |-> IF r.ok THEN r.value ELSE out, eng |-> g,
     calls |-> <<Call(fn, NoEnv, obj, idx, key, ptr, len, JsUndefined, r.ok,
                      IF r.ok THEN r.value ELSE out)>>]

NativeSet(fn, env, out, g, obj, n, idx, key, ptr, len, val) ==
    LET r == EngineSet(g, obj, n, val) IN
    [ok |-> r.ok, out |-> IF r.ok THEN r.wrote ELSE out, eng |-> r.eng,
     calls |-> <<Call(fn, env, obj, idx, key, ptr, len, val, r.ok,
                      IF r.ok THEN r.wrote ELSE out)>>]

object_get_index(out, g, obj, index) ==
    NativeGet("get_index", out, g, obj, IndexName(index), index, JsUndefined, <<>>, 0)

object_set_index(out, g, obj, index, val) ==
    NativeSet("set_index", NoEnv, out, g, obj, IndexName(index), index, JsUndefined, <<>>, 0, val)

object_get(out, g, obj, key) ==
    NativeGet("get", out, g, obj, ToPropertyKey(key), 0, key, <<>>, 0)

object_set(out, g, obj, key, val) ==
    NativeSet("set", NoEnv, out, g, obj, ToPropertyKey(key), 0, key, <<>>, 0, val)

object_get_string(out, g, obj, ptr, len) ==
    NativeGet("get_string", out, g, obj, ReadUtf8(ptr, len), 0, JsUndefined, ptr, len)

legacy_object_set_string(out, g, obj, ptr, len, val) ==
    NativeSet("set_string", NoEnv, out, g, obj, ReadUtf8(ptr, len), 0, JsUndefined, ptr, len, val)

napi_object_set_string(env, out, g, obj, ptr, len, val) ==
    NativeSet("set_string", env, out, g, obj, ReadUtf8(ptr, len), 0, JsUndefined, ptr, len, val)

NativeNames(fn, out, g, obj, names, trap) ==
    LET filled == IF trap THEN out ELSE JsArray(InOrder(names)) IN
    [ok |-> ~trap, out |-> filled, eng |-> g,
     calls |-> <<Call(fn, NoEnv, obj, 0, JsUndefined, <<>>, 0, JsUndefined, ~trap, filled)>>]

\* trap = TRUE: the enumeration throws (a proxy ownKeys trap)
object_get_own_property_names(out, g, obj, trap) ==
    NativeNames("get_own_property_names", out, g, obj, OwnEnumerable(g, obj), trap)

\* variant: the enumeration walks the prototype chain only
object_get_property_names_inherited(out, g, obj, trap) ==
    NativeNames("get_property_names", out, g, obj, ProtoNames(obj) \ DOMAIN g[obj].props, trap)

object_get_property_names(out, g, obj, trap) ==
    NativeNames("get_property_names", out, g, obj,
                OwnEnumerable(g, obj) \cup (ProtoNames(obj) \ DOMAIN g[obj].props), trap)

object_get_property_attributes(g, obj, key) ==
    LET attribs == EngineAttributes(g, obj, ToPropertyKey(key)) IN
    [attribs |-> attribs,
     calls |-> <<Call("get_property_attributes", NoEnv, obj, 0, key, <<>>, 0, JsUndefined,
                      TRUE, attribs)>>]

\* ------------------------------------------------------------- results
Ok(v) == [tag |-> "Ok", val |-> v]
Throw == [tag |-> "Err"]

\* types::build: false -> Err(Throw), true -> Ok(handle of the filled out-slot)
build(r) ==
    [res |-> IF r.ok THEN Ok(Handle(r.out)) ELSE Throw,
     ret |-> r.ok, eng |-> r.eng, calls |-> r.calls]

\* -------------------------------------------- PropertyKey, legacy-runtime
legacy_u32_get_from(self, out, g, obj) == object_get_index(out, g, obj, self)

\* variant: the index is written through the generic value-keyed entry point
legacy_u32_set_from_by_key(self, out, g, obj, val) ==
    object_set(out, g, obj, JsNumber(self), val)

legacy_u32_set_from(self, out, g, obj, val) == object_set_index(out, g, obj, self, val)

legacy_handle_get_from(self, out, g, obj) == object_get(out, g, obj, to_raw(self))

legacy_handle_set_from(self, out, g, obj, val) == object_set(out, g, obj, to_raw(self), val)

legacy_str_get_from(self, out, g, obj) ==
    LET lowered == Utf8Lower(self) IN
    object_get_string(out, g, obj, lowered.ptr, lowered.len)

\* variant: the length handed to the native call is one short
legacy_str_set_from_short(self, out, g, obj, val) ==
    LET lowered == Utf8Lower(self) IN
    legacy_object_set_string(out, g, obj, lowered.ptr, lowered.len - 1, val)

legacy_str_set_from(self, out, g, obj, val) ==
    LET lowered == Utf8Lower(self) IN
    legacy_object_set_string(out, g, obj, lowered.ptr, lowered.len, val)

\* static dispatch on the key type K: PropertyKey
legacy_get_from(key, out, g, obj) ==
    CASE key.kind = "u32" -> legacy_u32_get_from(key.idx, out, g, obj)
      [] key.kind = "handle" -> legacy_handle_get_from(key.handle, out, g, obj)
      [] key.kind = "str" -> legacy_str_get_from(key.text, out, g, obj)

legacy_set_from(key, out, g, obj, val) ==
    CASE key.kind = "u32" -> legacy_u32_set_from(key.idx, out, g, obj, val)
      [] key.kind = "handle" -> legacy_handle_set_from(key.handle, out, g, obj, val)
      [] key.kind = "str" -> legacy_str_set_from(key.text, out, g, obj, val)

\* ---------------------------------------------- PropertyKey, napi-runtime
napi_u32_get_from(self, cx, out, g, obj) == object_get_index(out, g, obj, self)

napi_u32_set_from(self, cx, out, g, obj, val) == object_set_index(out, g, obj, self, val)

napi_handle_get_from(self, cx, out, g, obj) == object_get(out, g, obj, to_raw(self))

napi_handle_set_from(self, cx, out, g, obj, val) == object_set(out, g, obj, to_raw(self), val)

napi_str_get_from(self, cx, out, g, obj) ==
    LET lowered == Utf8Lower(self) IN
    object_get_string(out, g, obj, lowered.ptr, lowered.len)

\* variant: the token of the previous call's context is reused
napi_str_set_from_cached_env(self, cx, out, g, obj, val) ==
    LET lowered == Utf8Lower(self)
        env == IF last.cx.env # NoEnv THEN env_to_raw(last.cx) ELSE env_to_raw(cx)
    IN napi_object_set_string(env, out, g, obj, lowered.ptr, lowered.len, val)

napi_str_set_from(self, cx, out, g, obj, val) ==
    LET lowered == Utf8Lower(self)
        env == env_to_raw(cx)
    IN napi_object_set_string(env, out, g, obj, lowered.ptr, lowered.len, val)

napi_get_from(key, cx, out, g, obj) ==
    CASE key.kind = "u32" -> napi_u32_get_from(key.idx, cx, out, g, obj)
      [] key.kind = "handle" -> napi_handle_get_from(key.handle, cx, out, g, obj)
      [] key.kind = "str" -> napi_str_get_from(key.text, cx, out, g, obj)

napi_set_from(key, cx, out, g, obj, val) ==
    CASE key.kind = "u32" -> napi_u32_set_from(key.idx, cx, out, g, obj, val)
      [] key.kind = "handle" -> napi_handle_set_from(key.handle, cx, out, g, obj, val)
      [] key.kind = "str" -> napi_str_set_from(key.text, cx, out, g, obj, val)

\* ------------------------------------------------- Object, legacy-runtime
\* variant: the out-slot is handed to the caller without checking the boolean
legacy_Object_get_unchecked(self, cx, key, g) ==
    LET r == legacy_get_from(key, ZeroedLocal, g, to_raw(self)) IN
    [res |-> Ok(Handle(r.out)), ret |-> r.ok, eng |-> r.eng, calls |-> r.calls]

legacy_Object_get(self, cx, key, g) ==
    build(legacy_get_from(key, ZeroedLocal, g, to_raw(self)))

legacy_Object_get_property_attributes(self, cx, key, g) ==
    LET r == object_get_property_attributes(g, to_raw(self), to_raw(key)) IN
    [res |-> [tag |-> "Attributes", attribs |-> r.attribs],
     ret |-> TRUE, eng |-> g, calls |-> r.calls]

legacy_Object_get_property_names(self, cx, g, trap) ==
    build(object_get_property_names(ZeroedLocal, g, to_raw(self), trap))

legacy_Object_get_own_property_names(self, cx, g, trap) ==
    build(object_get_own_property_names(ZeroedLocal, g, to_raw(self), trap))

\* variant: a refused write is reported as a pending exception
legacy_Object_set_refusal_throws(self, cx, key, val, g) ==
    LET result == FALSE
        r == legacy_set_from(key, result, g, to_raw(self), to_raw(val))
    IN [res |-> IF r.ok /\ r.out THEN Ok(TRUE) ELSE Throw,
        ret |-> r.ok, eng |-> r.eng, calls |-> r.calls]

\* variant: a failed native call is tried a second time
legacy_Object_set_retry(self, cx, key, val, g) ==
    LET result == FALSE
        r == legacy_set_from(key, result, g, to_raw(self), to_raw(val))
        again == legacy_set_from(key, result, r.eng, to_raw(self), to_raw(val))
    IN IF r.ok
       THEN [res |-> Ok(r.out), ret |-> r.ok, eng |-> r.eng, calls |-> r.calls]
       ELSE [res |-> IF again.ok THEN Ok(again.out) ELSE Throw,
             ret |-> again.ok, eng |-> again.eng, calls |-> r.calls \o again.calls]

legacy_Object_set(self, cx, key, val, g) ==
    LET result == FALSE
        r == legacy_set_from(key, result, g, to_raw(self), to_raw(val))
    IN [res |-> IF r.ok THEN Ok(r.out) ELSE Throw,
        ret |-> r.ok, eng |-> r.eng, calls |-> r.calls]

\* --------------------------------------------------- Object, napi-runtime
\* variant: a get right after a set of the same key answers with the value set
napi_Object_get_remembered(self, cx, key, g) ==
    LET r == build(napi_get_from(key, cx, ZeroedLocal, g, to_raw(self))) IN
    IF last.op = "set" /\ last.obj = to_raw(self) /\ last.key = key /\ r.ret
    THEN [r EXCEPT !.res = Ok(Handle(last.val))]
    ELSE r

napi_Object_get(self, cx, key, g) ==
    build(napi_get_from(key, cx, ZeroedLocal, g, to_raw(self)))

\* variant: the inherited enumeration is called instead of the own one
napi_Object_get_own_property_names_all(self, cx, g, trap) ==
    build(object_get_property_names(ZeroedLocal, g, to_raw(self), trap))

napi_Object_get_own_property_names(self, cx, g, trap) ==
    build(object_get_own_property_names(ZeroedLocal, g, to_raw(self), trap))

\* variant: a refused write is reported as a pending exception
napi_Object_set_refusal_throws(self, cx, key, val, g) ==
    LET result == FALSE
        r == napi_set_from(key, cx, result, g, to_raw(self), to_raw(val))
    IN [res |-> IF r.ok /\ r.out THEN Ok(TRUE) ELSE Throw,
        ret |-> r.ok, eng |-> r.eng, calls |-> r.calls]

napi_Object_set(self, cx, key, val, g) ==
    LET result == FALSE
        r == napi_set_from(key, cx, result, g, to_raw(self), to_raw(val))
    IN [res |-> IF r.ok THEN Ok(r.out) ELSE Throw,
        ret |-> r.ok, eng |-> r.eng, calls |-> r.calls]

\* ----------------------------------------------------------- the machine
Backends == {"legacy", "napi"}

\* the name a key addresses in the engine
KeyName(key) ==
    CASE key.kind = "u32" -> IndexName(key.idx)
      [] key.kind = "handle" -> ToPropertyKey(to_raw(key.handle))
      [] key.kind = "str" -> key.text

NoKey == [kind |-> "none", idx |-> 0, text |-> <<>>, handle |-> Handle(JsUndefined)]
NoName == <<"-">>
\* what immediately preceded a get on the same object and name: nothing, a
\* set through this layer ("set") or a write made by the engine ("engine")
NoSet == [by |-> "none", class |-> "none", val |-> JsUndefined, old |-> JsUndefined, res |-> Throw]

NoContext == [env |-> NoEnv]

\* the operation just performed, with its inputs, its result and the native
\* calls it made; the context is recorded for set, the one operation whose
\* native call may receive a token
Record(op, o, cx, key, name, val, r, class, old, after) ==
    [op |-> op, obj |-> o, cx |-> IF op = "set" THEN cx ELSE NoContext,
     key |-> key, name |-> name, val |-> val,
     res |-> r.res, ret |-> r.ret, calls |-> r.calls,
     class |-> class, old |-> old, after |-> after]

NoOp == [op |-> "none", obj |-> "o1", cx |-> NoContext, key |-> NoKey,
         name |-> NoName, val |-> JsUndefined, res |-> Throw, ret |-> FALSE, calls |-> <<>>,
         class |-> "none", old |-> [ok |-> FALSE, value |-> JsUndefined],
         after |-> NoSet]

Init ==
    /\ backend \in Backends
    /\ eng = InitialGraph
    /\ last = NoOp

\* the set this get immediately follows, when it addressed the same object and key
Preceding(o, key) ==
    CASE last.op = "set" /\ last.obj = o /\ last.key = key ->
            [by |-> "set", class |-> last.class, val |-> last.val,
             old |-> last.old.value, res |-> last.res]
      [] last.op = "engine" /\ last.obj = o /\ last.name = KeyName(key) ->
            [by |-> "engine", class |-> last.class, val |-> last.val,
             old |-> last.old.value, res |-> Throw]
      [] OTHER -> NoSet

\* what a get of (o, n) would return before a set, recorded unless the
\* target is a writable property (which the set overwrites)
Before(o, n) ==
    IF TargetClass(eng, o, n) = "writable"
    THEN [ok |-> TRUE, value |-> JsUndefined]
    ELSE EngineGet(eng, o, n)

Get(o, cx, key) ==
    LET r == IF backend = "legacy"
             THEN legacy_Object_get(Handle(o), cx, key, eng)
             ELSE napi_Object_get(Handle(o), cx, key, eng)
    IN /\ eng' = r.eng
       /\ last' = Record("get", o, cx, key, KeyName(key), JsUndefined, r,
                         TargetClass(eng, o, KeyName(key)),
                         EngineGet(eng, o, KeyName(key)), Preceding(o, key))
       /\ UNCHANGED backend

Set(o, cx, key, val) ==
    LET r == IF backend = "legacy"
             THEN legacy_Object_set(Handle(o), cx, key, Handle(val), eng)
             ELSE napi_Object_set(Handle(o), cx, key, Handle(val), eng)
    IN /\ eng' = r.eng
       /\ last' = Record("set", o, cx, key, KeyName(key), val, r,
                         TargetClass(eng, o, KeyName(key)),
                         Before(o, KeyName(key)), NoSet)
       /\ UNCHANGED backend

GetOwnPropertyNames(o, cx, trap) ==
    LET r == IF backend = "legacy"
             THEN legacy_Object_get_own_property_names(Handle(o), cx, eng, trap)
             ELSE napi_Object_get_own_property_names(Handle(o), cx, eng, trap)
    IN /\ eng' = r.eng
       /\ last' = Record("get_own_property_names", o, cx, NoKey, NoName, JsUndefined, r,
                         "none", [ok |-> ~trap, value |-> JsUndefined], NoSet)
       /\ UNCHANGED backend

\* legacy-runtime only
GetPropertyNames(o, cx, trap) ==
    /\ backend = "legacy"
    /\ LET r == legacy_Object_get_property_names(Handle(o), cx, eng, trap)
       IN /\ eng' = r.eng
          /\ last' = Record("get_property_names", o, cx, NoKey, NoName, JsUndefined, r,
                            "none", [ok |-> ~trap, value |-> JsUndefined], NoSet)
    /\ UNCHANGED backend

\* legacy-runtime only
GetPropertyAttributes(o, cx, kv) ==
    /\ backend = "legacy"
    /\ LET r == legacy_Object_get_property_attributes(Handle(o), cx, Handle(kv), eng)
       IN /\ eng' = r.eng
          /\ last' = Record("get_property_attributes", o, cx, HandleKey(kv), ToPropertyKey(kv), JsUndefined, r,
                            TargetClass(eng, o, ToPropertyKey(kv)),
                            EngineGet(eng, o, ToPropertyKey(kv)), NoSet)
    /\ UNCHANGED backend

\* engine-side changes to the object graph, made behind this layer
Idle == [NoOp EXCEPT !.op = "engine"]

EngineWrite(o, n, v) ==
    /\ TargetClass(eng, o, n) = "writable"
    /\ eng[o].props[n].value # v
    /\ eng' = WithProp(eng, o, n, [eng[o].props[n] EXCEPT !.value = v])
    /\ last' = [Idle EXCEPT !.obj = o, !.name = n, !.val = v, !.class = "writable",
                             !.old = EngineGet(eng, o, n)]
    /\ UNCHANGED backend

EngineFreeze(o) ==
    /\ eng[o].extensible
    /\ eng' = [eng EXCEPT ![o] =
                 [props |-> [n \in DOMAIN eng[o].props |->
                               [eng[o].props[n] EXCEPT !.writable = FALSE]],
                  extensible |-> FALSE]]
    /\ last' = Idle
    /\ UNCHANGED backend

EngineDefineAccessor(o, n) ==
    /\ eng[o].extensible
    /\ TargetClass(eng, o, n) # "accessor"
    /\ eng' = WithProp(eng, o, n, AccessorProp)
    /\ last' = Idle
    /\ UNCHANGED backend

Next ==
    \/ \E o \in Objs, cx \in Contexts, key \in Keys : Get(o, cx, key)
    \/ \E o \in Objs, cx \in Contexts, key \in Keys, val \in Vals : Set(o, cx, key, val)
    \/ \E o \in Objs, cx \in Contexts, trap \in BOOLEAN : GetOwnPropertyNames(o, cx, trap)
    \/ \E o \in Objs, cx \in Contexts, trap \in BOOLEAN : GetPropertyNames(o, cx, trap)
    \/ \E o \in Objs, cx \in Contexts, kv \in KeyValues : GetPropertyAttributes(o, cx, kv)
    \/ \E o \in Objs, n \in PropNames, v \in Vals : EngineWrite(o, n, v)
    \/ \E o \in Objs : EngineFreeze(o)
    \/ \E o \in Objs, n \in PropNames : EngineDefineAccessor(o, n)

Spec == Init /\ [][Next]_vars

TypeOK == backend \in Backends /\ DOMAIN eng = Objs

\* ------------------------------------------------------------ properties
Performed ==
    last.op \in {"get", "set", "get_own_property_names", "get_property_names",
                 "get_property_attributes"}

Range(f) == {f[i] : i \in DOMAIN f}

\* C1: Object::set returns Err(Throw) exactly when the native set call
\* returned false; when it returned true, set returns Ok(b) with b the
\* "did write" flag the native call stored in the out-parameter.
C1_SetResult ==
    (last.op = "set" /\ Len(last.calls) > 0) =>
        LET c == last.calls[Len(last.calls)] IN
        /\ (last.res = Throw) <=> ~c.ret
        /\ c.ret => last.res = Ok(c.out)

C1_Witness ==
    /\ last.op = "set"
    /\ Len(last.calls) = 1
    /\ last.calls[1].ret
    /\ last.calls[1].out = FALSE
    /\ last.res = Ok(FALSE)

\* C2: Object::get returns Err(Throw) exactly when the native get call
\* returned false, and then hands no out-parameter value to the caller; when
\* the native call returned true it returns Ok of the value in the out-slot.
C2_GetResult ==
    (last.op = "get" /\ Len(last.calls) > 0) =>
        LET c == last.calls[Len(last.calls)] IN
        /\ (last.res = Throw) <=> ~c.ret
        /\ c.ret => last.res = Ok(Handle(c.out))
        /\ ~c.ret => DOMAIN last.res = {"tag"}

C2_Witness ==
    /\ last.op = "get"
    /\ Len(last.calls) = 1
    /\ ~last.calls[1].ret
    /\ last.calls[1].out = ZeroedLocal
    /\ last.res = Throw

\* C3: a set whose target property is non-writable returns Ok(false) and
\* leaves the property unchanged, and a get of the same key that follows
\* returns the old value; it never returns Err(Throw) for that reason.
C3_NonWritableSet ==
    /\ (last.op = "set" /\ last.class = "readonly") =>
          /\ last.res = Ok(FALSE)
          /\ EngineGet(eng, last.obj, last.name) = last.old
    /\ (last.op = "get" /\ last.after.by = "set" /\ last.after.class = "readonly") =>
          /\ last.after.res = Ok(FALSE)
          /\ last.res = Ok(Handle(last.after.old))

C3_Witness ==
    /\ last.op = "get"
    /\ last.after.by = "set"
    /\ last.after.class = "readonly"
    /\ last.after.val # last.after.old
    /\ last.res = Ok(Handle(last.after.old))

\* C4: a set on a writable property returns Ok(true), and a get of the same
\* key on the same object that immediately follows returns the value set,
\* for index, text and handle keys.
C4_SetThenGet ==
    /\ (last.op = "set" /\ last.class = "writable") => last.res = Ok(TRUE)
    /\ (last.op = "get" /\ last.after.by = "set" /\ last.after.class = "writable") =>
          last.res = Ok(Handle(last.after.val))

C4_Witness ==
    /\ last.op = "get"
    /\ last.key.kind = "str"
    /\ last.after.by = "set"
    /\ last.after.class = "writable"
    /\ last.after.res = Ok(TRUE)
    /\ last.res = Ok(Handle(last.after.val))

\* C5: where both enumerations exist (legacy-runtime) and both succeed on
\* the same object in the same engine state, every name returned by
\* get_own_property_names is also returned by get_property_names.
C5_OwnNamesSubset ==
    backend = "legacy" =>
        \A o \in Objs, cx \in Contexts :
            LET own == legacy_Object_get_own_property_names(Handle(o), cx, eng, FALSE)
                all == legacy_Object_get_property_names(Handle(o), cx, eng, FALSE)
            IN (own.res.tag = "Ok" /\ all.res.tag = "Ok") =>
                  Range(to_raw(own.res.val).names) \subseteq Range(to_raw(all.res.val).names)

C5_Witness ==
    /\ backend = "legacy"
    /\ last.op = "get_property_names"
    /\ last.res.tag = "Ok"
    /\ Has(eng, last.obj, <<"a", "b">>)
    /\ to_raw(last.res.val).length > Cardinality(OwnEnumerable(eng, last.obj))
    /\ Cardinality(OwnEnumerable(eng, last.obj)) > 1

\* C6: a context token reaches the native call surface only when a text key
\* is set in the napi-runtime backend, and it is the token of the context
\* argument of that same call; every other call passes none.
C6_ContextToken ==
    Performed =>
        \A i \in DOMAIN last.calls :
            IF backend = "napi" /\ last.op = "set" /\ last.key.kind = "str"
            THEN last.calls[i].env = env_to_raw(last.cx)
            ELSE last.calls[i].env = NoEnv

C6_Witness ==
    /\ backend = "napi"
    /\ last.op = "set"
    /\ last.key.kind = "str"
    /\ Len(last.calls) = 1
    /\ last.calls[1].env = "env2"
    /\ last.cx.env = "env2"

\* C7: a get returns what the engine holds for the key at the moment of the
\* call, also right after a refused set or an engine-side write, never a
\* value remembered from an earlier operation.
C7_ReadThrough ==
    last.op = "get" =>
        LET now == EngineGet(eng, last.obj, last.name) IN
        last.res = IF now.ok THEN Ok(Handle(now.value)) ELSE Throw

C7_Witness ==
    /\ last.op = "get"
    /\ last.after.by = "engine"
    /\ last.after.val # last.after.old
    /\ last.res = Ok(Handle(last.after.val))

\* C8: every Object operation makes exactly one call into the native call
\* surface, also when that call reports failure (no retry).
C8_SingleNativeCall == Performed => Len(last.calls) = 1

C8_Witness ==
    /\ last.op = "set"
    /\ last.res = Throw
    /\ Len(last.calls) = 1
    /\ ~last.calls[1].ret

EntryPoint(kind, op) ==
    CASE kind = "u32" -> IF op = "get" THEN "get_index" ELSE "set_index"
      [] kind = "handle" -> IF op = "get" THEN "get" ELSE "set"
      [] kind = "str" -> IF op = "get" THEN "get_string" ELSE "set_string"

\* C9: get and set reach the native entry point selected by key kind and
\* direction (get_index/set_index, get/set, get_string/set_string), pass the
\* object and, for set, the value they were given, and the key
\* implementation returns the native boolean unchanged.
C9_Dispatch ==
    last.op \in {"get", "set"} =>
        /\ Len(last.calls) >= 1
        /\ LET c == last.calls[1] IN
           /\ c.fn = EntryPoint(last.key.kind, last.op)
           /\ c.obj = last.obj
           /\ last.op = "set" => c.val = last.val
           /\ last.ret = c.ret

C9_Witness ==
    /\ last.op = "set"
    /\ last.key.kind = "u32"
    /\ last.obj = "o2"
    /\ Len(last.calls) = 1
    /\ last.calls[1].fn = "set_index"
    /\ last.calls[1].obj = "o2"
    /\ last.calls[1].val = last.val

StripEnv(calls) == [i \in DOMAIN calls |-> [calls[i] EXCEPT !.env = NoEnv]]

SameOutcome(l, n) == l.res = n.res /\ l.ret = n.ret /\ l.eng = n.eng

\* C10: on get, set and get_own_property_names the two backends return the
\* same Result, leave the same engine state and make the same native calls in
\* the same order, except for the context token passed to set-by-text.
\* (The engine graph changes only in Init, Set and the engine-side actions, so
\* every reachable graph is compared in the state that enters it.)
C10_BackendsEquivalent ==
    last.op \in {"none", "set", "engine"} =>
    \A o \in Objs, cx \in Contexts :
        /\ \A key \in Keys :
              LET l == legacy_Object_get(Handle(o), cx, key, eng)
                  n == napi_Object_get(Handle(o), cx, key, eng)
              IN SameOutcome(l, n) /\ l.calls = n.calls
        /\ \A key \in Keys, val \in Vals :
              LET l == legacy_Object_set(Handle(o), cx, key, Handle(val), eng)
                  n == napi_Object_set(Handle(o), cx, key, Handle(val), eng)
              IN /\ SameOutcome(l, n)
                 /\ l.calls = StripEnv(n.calls)
                 /\ key.kind # "str" => l.calls = n.calls
        /\ \A trap \in BOOLEAN :
              LET l == legacy_Object_get_own_property_names(Handle(o), cx, eng, trap)
                  n == napi_Object_get_own_property_names(Handle(o), cx, eng, trap)
              IN SameOutcome(l, n) /\ l.calls = n.calls

C10_Witness ==
    /\ backend = "napi"
    /\ last.op = "get_own_property_names"
    /\ last.res.tag = "Ok"
    /\ to_raw(last.res.val).length > 1
    /\ last.res = legacy_Object_get_own_property_names(Handle(last.obj), last.cx, eng, FALSE).res

====
